---- MODULE Spec2Model ----
(***************************************************************************)
(* Fund-Valuation-System: the tick store (database.py), the fallback       *)
(* resolver (data_api.py) and the refresh cycles (app.py).                 *)
(*                                                                         *)
(* Strings the code compares are modelled by values with the same order:   *)
(*   - a fund code is the tuple of its digits, so startswith is a prefix   *)
(*     test on the tuple;                                                  *)
(*   - a record_time "YYYY-MM-DD HH:MM:SS" is [date, time] compared        *)
(*     lexicographically; the date "--" is DASH (sorts before every        *)
(*     digit) and the time text of the data-unavailable record is UNAVAIL  *)
(*     (non-ASCII, sorts after every digit).                               *)
(***************************************************************************)
EXTENDS Integers, Sequences, FiniteSets, Bags, TLC

\* ---------------------------------------------------------------- bounds
MaxDay == 2
MaxOldDay == 5
MaxTime == 1
MaxBatch == 2
MaxRows == 3
MaxKeep == 3
MaxMinute == 1
MaxCodes == 2
MaxTasks == 21
MaxCallers == 3
MaxCalls == 2
MaxLen == 4
MaxTail == 2
MaxTrades == 3
MaxUnits == 2
MaxPrice == 2
MaxDates == 3

\* ------------------------------------------------------- program constants
\* date('now', '-3 days') in cleanup_old_ticks
RetentionDays == 3
\* the date text "--" (last_date default of get_real_time_estimate)
DASH == 0
\* the time text of the data-unavailable record
UNAVAIL == 99
\* the seconds of a minute: a time of day is counted in seconds
SecondsPerMinute == 60

\* an exchange-traded code (prefix 51) and an off-exchange code
ExchangeCode == <<5, 1, 0, 3, 0, 0>>
OffExchangeCode == <<0, 0, 0, 0, 0, 1>>
Funds == {ExchangeCode, OffExchangeCode}
Writers == {"dashboard", "holdings"}
Times == 0..MaxTime

VARIABLES now, tod, table, save_error, last_op, session, pool, cache, ak, holding

vars == <<now, tod, table, save_error, last_op, session, pool, cache, ak, holding>>
\* the state of the store and of the clock
store == <<now, tod, table, save_error>>
\* the state of the thread pools, of the caches and of the akshare lock
threads == <<pool, cache, ak>>

\* ------------------------------------------------------------- tick store
\* one row of intraday_ticks (the AUTOINCREMENT id is not modelled: the
\* table is a bag of rows, so two equal rows stay two rows)
Tick(f, d, t, p, g) == [fund_code |-> f, record_time |-> [date |-> d, time |-> t], pct |-> p, price |-> g]

\* text order of two record_time values
TimeLess(a, b) == a.date < b.date \/ (a.date = b.date /\ a.time < b.time)

\* UNIQUE(fund_code, record_time)
UniqueConflict(rows, r) == \E s \in BagToSet(rows) : s.fund_code = r.fund_code /\ s.record_time = r.record_time

\* a plain INSERT that knows no constraint: the row is always stored
InsertAlways(st, r) == [rows |-> st.rows (+) SetToBag({r}), err |-> st.err]

\* INSERT OR REPLACE: the conflicting row gives way to the new one
InsertOrReplace(st, r) == LET Other(s) == ~(s.fund_code = r.fund_code /\ s.record_time = r.record_time) IN [rows |-> [x \in {y \in BagToSet(st.rows) : Other(y)} |-> st.rows[x]] (+) SetToBag({r}), err |-> st.err]

\* one INSERT OR IGNORE: a conflicting row is skipped, no error is raised
InsertOrIgnore(st, r) == IF UniqueConflict(st.rows, r) THEN st ELSE [rows |-> st.rows (+) SetToBag({r}), err |-> st.err]

RECURSIVE ExecuteMany(_, _)
ExecuteMany(st, L) == IF L = <<>> THEN st ELSE ExecuteMany(InsertOrIgnore(st, Head(L)), Tail(L))

\* save_tick_batch(ticks_data): the table after the call and whether it raised
save_tick_batch(rows, L) == IF L = <<>> THEN [rows |-> rows, err |-> FALSE] ELSE ExecuteMany([rows |-> rows, err |-> FALSE], L)

\* a filter that lets every day through
LikeAnyDay(r, today) == TRUE

\* record_time LIKE '<today>%'
LikeToday(r, today) == r.record_time.date = today

RowView(r) == [record_time |-> r.record_time, pct |-> r.pct, price |-> r.price]

\* ORDER BY record_time ASC over a bag of rows (rows of equal record_time
\* come in an order SQL leaves open; the CHOOSE fixes one)
RECURSIVE OrderByTime(_)
OrderByTime(B) == IF B = EmptyBag THEN <<>> ELSE LET m == CHOOSE x \in BagToSet(B) : \A y \in BagToSet(B) : ~TimeLess(y.record_time, x.record_time) IN <<RowView(m)>> \o OrderByTime(B (-) SetToBag({m}))

\* the rows of S, a set of rows of the bag B, with their multiplicity in B
Where(B, S) == [x \in S |-> B[x]]

get_today_ticks(rows, f, today) == OrderByTime(Where(rows, {r \in BagToSet(rows) : r.fund_code = f /\ LikeToday(r, today)}))

\* record_time < date('now', '-3 days'): a text comparison of
\* "YYYY-MM-DD HH:MM:SS" with "YYYY-MM-DD"; a row dated on the cutoff day is
\* the longer text and is not smaller
OlderThanCutoff(r, cutoff) == r.record_time.date < cutoff

\* cleanup_old_ticks(days_to_keep): days_to_keep is not used by the body
cleanup_old_ticks(rows, days_to_keep, utc_today) == Where(rows, {r \in BagToSet(rows) : ~OlderThanCutoff(r, utc_today - RetentionDays)})

\* --------------------------------------------------------- python values
\* A value a source hands over is a float, a str holding a number ("numstr"),
\* another non-empty str ("text"), the empty str or None.  Prices are in
\* hundredths, percentages in hundredths of a percent.
NONE == [k |-> "None", v |-> 0]
PyFloat(n) == [k |-> "float", v |-> n]
PyStr(n) == [k |-> "numstr", v |-> n]
TEXT == [k |-> "text", v |-> 0]
EMPTY == [k |-> "empty", v |-> 0]

\* bool(x)
Truthy(x) == CASE x.k = "float" -> x.v # 0
               [] x.k \in {"numstr", "text"} -> TRUE
               [] OTHER -> FALSE

\* float(x): the number, or the exception float raises
ToFloat(x) == CASE x.k \in {"float", "numstr"} -> [exc |-> "none", v |-> x.v]
                [] x.k \in {"text", "empty"} -> [exc |-> "ValueError", v |-> 0]
                [] OTHER -> [exc |-> "TypeError", v |-> 0]

AllExceptions == {"Timeout", "ValueError", "TypeError", "KeyError"}

\* except Exception around the Sina request and around the Tiantian request
SinaCatches == AllExceptions
TiantianCatches == AllExceptions
\* the bare except around the confirmed_nav / pre_close test
NavCatches == AllExceptions
\* a handler that lets TypeError through
OnlyValueError == {"ValueError"}
\* except (ValueError, TypeError) around the combination
CombineCatches == {"ValueError", "TypeError"}

\* try: body / except <catches>: pass
Try(body, catches) == IF body.exc # "none" /\ body.exc \in catches THEN [exc |-> "none", ret |-> NONE] ELSE body

\* ---------------------------------------------------------------- resolver
ExchangePrefixes == {<<1, 5>>, <<1, 6>>, <<1, 8>>, <<5, 0>>, <<5, 1>>, <<5, 6>>, <<5, 8>>}

\* fund_code.startswith(('15', '16', '18', '50', '51', '56', '58'))
IsExchange(code) == SubSeq(code, 1, 2) \in ExchangePrefixes

\* the body of the Sina try block for one response
SinaBody(code, out) == CASE out.kind = "timeout" -> [exc |-> "Timeout", ret |-> NONE]
                         [] out.kind \in {"status", "unparsable"} -> [exc |-> "none", ret |-> NONE]
                         [] out.kind = "nonnumeric" -> [exc |-> "ValueError", ret |-> NONE]
                         [] OTHER -> LET pre_close == out.pre_close
                                         current_price == IF out.price > 0 THEN out.price ELSE pre_close
                                         pct == IF pre_close > 0 THEN ((current_price - pre_close) * 10000) \div pre_close ELSE 0
                                     IN [exc |-> "none", ret |-> [code |-> code, gz |-> PyFloat(current_price), zzl |-> PyFloat(pct), est_date |-> out.date, pre_close |-> PyFloat(pre_close), confirmed_nav |-> PyFloat(pre_close), time |-> out.time]]

\* the body of the Tiantian try block for one response
TiantianBody(code, out) == CASE out.kind = "timeout" -> [exc |-> "Timeout", ret |-> NONE]
                             [] out.kind \in {"status", "unparsable"} -> [exc |-> "none", ret |-> NONE]
                             [] out.kind = "missing" -> [exc |-> "KeyError", ret |-> NONE]
                             [] OTHER -> [exc |-> "none", ret |-> [code |-> code, gz |-> out.gsz, zzl |-> out.gszzl, est_date |-> out.date, pre_close |-> out.dwjz, confirmed_nav |-> out.dwjz, time |-> out.time]]

\* _fetch_single_fund_realtime(fund_code): what it returns, what it raises
\* and the requests it made, in order
fetch_single_fund_realtime(code, sina, tt) == LET first == IF IsExchange(code) THEN <<"sina">> ELSE <<>>
                                                  s == IF IsExchange(code) THEN Try(SinaBody(code, sina), SinaCatches) ELSE [exc |-> "none", ret |-> NONE]
                                                  t == Try(TiantianBody(code, tt), TiantianCatches)
                                              IN IF s.exc # "none" THEN [ret |-> NONE, exc |-> s.exc, calls |-> first]
                                                 ELSE IF s.ret # NONE THEN [ret |-> s.ret, exc |-> "none", calls |-> first]
                                                 ELSE [ret |-> t.ret, exc |-> t.exc, calls |-> first \o <<"tiantian">>]

\* the text of last_date when pre_close is used
PREV == 98

\* the test of confirmed_nav, then of pre_close
ConfirmedNavBody(est) == LET c == est.confirmed_nav
                             p == est.pre_close
                         IN IF Truthy(c) /\ ToFloat(c).exc # "none" THEN [exc |-> ToFloat(c).exc, last_nav |-> NONE, last_date |-> DASH]
                            ELSE IF Truthy(c) /\ ToFloat(c).v > 0 THEN [exc |-> "none", last_nav |-> PyFloat(ToFloat(c).v), last_date |-> est.est_date]
                            ELSE IF Truthy(p) /\ ToFloat(p).exc # "none" THEN [exc |-> ToFloat(p).exc, last_nav |-> NONE, last_date |-> DASH]
                            ELSE IF Truthy(p) /\ ToFloat(p).v > 0 THEN [exc |-> "none", last_nav |-> PyFloat(ToFloat(p).v), last_date |-> PREV]
                            ELSE [exc |-> "none", last_nav |-> NONE, last_date |-> DASH]

TryNav(body) == IF body.exc # "none" /\ body.exc \in NavCatches THEN [exc |-> "none", last_nav |-> NONE, last_date |-> DASH] ELSE body

\* the history is read although a confirmed NAV is known
AlwaysHistory(last_nav) == TRUE

\* if last_nav is None: fetch from history
NeedsHistory(last_nav) == last_nav = NONE

\* the body of the combination try block
CombineBody(est, last_nav, last_date, clock) == LET gz == ToFloat(est.gz)
                                                    zzl == ToFloat(est.zzl)
                                                    pc == ToFloat(est.pre_close)
                                                    exc == IF gz.exc # "none" THEN gz.exc ELSE IF zzl.exc # "none" THEN zzl.exc ELSE pc.exc
                                                IN IF exc # "none" THEN [exc |-> exc, ret |-> NONE]
                                                   ELSE [exc |-> "none", ret |-> [gz |-> gz.v, zzl |-> zzl.v, time |-> clock, data_date |-> est.est_date, last_nav |-> IF Truthy(last_nav) THEN last_nav.v ELSE gz.v, last_date |-> last_date, pre_close |-> pc.v]]

\* the "Data Unavailable" structure
Fallback(last_nav, last_date) == LET v == IF Truthy(last_nav) THEN last_nav.v ELSE 0
                                 IN [gz |-> v, zzl |-> 0, time |-> UNAVAIL, data_date |-> last_date, last_nav |-> v, last_date |-> last_date, pre_close |-> v, is_error |-> (last_nav = NONE)]

\* the one element of a one-element set; Only({F(x) : x \in {e}}) is F(e)
\* with e evaluated once
Only(S) == CHOOSE x \in S : TRUE

\* est_data = pre_fetched_data if pre_fetched_data else _fetch_single_fund_realtime(fund_code)
FetchStage(code, pre, sina, tt) == IF pre # NONE THEN [ret |-> pre, exc |-> "none", calls |-> <<>>] ELSE fetch_single_fund_realtime(code, sina, tt)

\* if est_data: try the confirmed NAV
NavStage(est) == IF est # NONE THEN TryNav(ConfirmedNavBody(est)) ELSE [exc |-> "none", last_nav |-> NONE, last_date |-> DASH]

\* if last_nav is None: the latest row of the history, if it has one
HistoryStage(nav1, hist) == IF ~NeedsHistory(nav1.last_nav) THEN [asked |-> FALSE, last_nav |-> nav1.last_nav, last_date |-> nav1.last_date]
                            ELSE IF hist.kind = "nav" THEN [asked |-> TRUE, last_nav |-> PyFloat(hist.nav), last_date |-> hist.date]
                            ELSE [asked |-> TRUE, last_nav |-> nav1.last_nav, last_date |-> nav1.last_date]

\* if est_data: try the combination
CombineStage(est, h, clock) == IF est # NONE THEN Try(CombineBody(est, h.last_nav, h.last_date, clock), CombineCatches) ELSE [exc |-> "none", ret |-> NONE]

\* the result of the call from the results of its four steps
Finish(fetched, nav1, h, comb) == LET calls == fetched.calls \o (IF h.asked THEN <<"history">> ELSE <<>>)
                                  IN IF fetched.exc # "none" THEN [ret |-> NONE, exc |-> fetched.exc, calls |-> fetched.calls]
                                     ELSE IF nav1.exc # "none" THEN [ret |-> NONE, exc |-> nav1.exc, calls |-> fetched.calls]
                                     ELSE IF comb.exc # "none" THEN [ret |-> NONE, exc |-> comb.exc, calls |-> calls]
                                     ELSE IF comb.ret # NONE THEN [ret |-> comb.ret, exc |-> "none", calls |-> calls]
                                     ELSE [ret |-> Fallback(h.last_nav, h.last_date), exc |-> "none", calls |-> calls]

AfterHistory(fetched, nav1, h, clock) == Only({Finish(fetched, nav1, h, comb) : comb \in {CombineStage(fetched.ret, h, clock)}})
AfterNav(fetched, nav1, hist, clock) == Only({AfterHistory(fetched, nav1, h, clock) : h \in {HistoryStage(nav1, hist)}})
AfterFetch(fetched, hist, clock) == Only({AfterNav(fetched, nav1, hist, clock) : nav1 \in {NavStage(fetched.ret)}})

\* get_real_time_estimate(fund_code, pre_fetched_data): what it returns,
\* what it raises and the sources it asked, in order
get_real_time_estimate(code, pre, sina, tt, hist, clock) == Only({AfterFetch(fetched, hist, clock) : fetched \in {FetchStage(code, pre, sina, tt)}})

\* what the sources can answer
SourceDates == {d \in {now - 1, now} : d >= 1}
SinaOutcomes == {[kind |-> k] : k \in {"timeout", "status", "unparsable", "nonnumeric"}} \cup {[kind |-> "quote", pre_close |-> pc, price |-> p, date |-> d, time |-> tod] : pc \in {0, 100}, p \in {0, 101}, d \in SourceDates}
TiantianOutcomes == {[kind |-> k] : k \in {"timeout", "status", "unparsable", "missing"}} \cup {[kind |-> "quote", gsz |-> g, gszzl |-> z, dwjz |-> n, date |-> d, time |-> tod] : g \in {PyStr(202), TEXT, NONE}, z \in {PyStr(100), EMPTY}, n \in {PyStr(200), PyStr(0), EMPTY}, d \in SourceDates}
HistoryOutcomes == {[kind |-> "empty"]} \cup {[kind |-> "nav", nav |-> 150, date |-> d] : d \in SourceDates}
\* pre_fetched_data: None, or a quote the batch fetch returned
PreFetched(code) == {NONE} \cup {fetch_single_fund_realtime(code, s, [kind |-> "timeout"]).ret : s \in SinaOutcomes} \cup {fetch_single_fund_realtime(code, [kind |-> "timeout"], t).ret : t \in TiantianOutcomes}

\* ------------------------------------------------------------ refresh cycle
\* the rows of the holdings table, in row order
Holdings == <<ExchangeCode, OffExchangeCode>>

\* get_batch_realtime_estimates(fund_codes): the codes whose task returned a
\* quote, each with its quote; env[i] holds the answers the sources give for
\* the i-th code
get_batch_realtime_estimates(codes, env) == LET Task(i) == fetch_single_fund_realtime(codes[i], env[i].sina1, env[i].tt1)
                                                Got == {i \in 1..Len(codes) : Task(i).exc = "none" /\ Task(i).ret # NONE}
                                            IN [c \in {codes[i] : i \in Got} |-> Task(CHOOSE i \in Got : codes[i] = c).ret]

\* batch_data.get(fund_code)
DictGet(d, key) == IF key \in DOMAIN d THEN d[key] ELSE NONE

\* the length of a date text and of a time text
DateLen(d) == IF d = DASH THEN 2 ELSE IF d = PREV THEN 5 ELSE 10
TimeLen(t) == IF t = UNAVAIL THEN 6 ELSE 8

\* the estimates of one cycle, one per holding, in row order
EstimatesWith(codes, batch_data, env, clock) == [i \in 1..Len(codes) |-> get_real_time_estimate(codes[i], DictGet(batch_data, codes[i]), env[i].sina2, env[i].tt2, env[i].hist, clock)]
CycleEstimates(codes, env, clock) == Only({EstimatesWith(codes, batch_data, env, clock) : batch_data \in {get_batch_realtime_estimates(codes, env)}})

\* if est.get('data_date') and est.get('time'): ticks_to_save.append(...)
\* (len(est['time']) == 5 never holds, so no ":00" is added)
RECURSIVE TicksToSave(_, _, _)
TickOf(code, est) == IF DateLen(est.data_date) > 0 /\ TimeLen(est.time) > 0 THEN <<Tick(code, est.data_date, est.time, est.zzl, est.gz)>> ELSE <<>>
TicksToSave(codes, ests, i) == IF i > Len(codes) THEN <<>> ELSE TickOf(codes[i], ests[i].ret) \o TicksToSave(codes, ests, i + 1)

\* the answers of the sources in one cycle for one code: to the batch fetch
\* (sina1, tt1), to the second fetch get_real_time_estimate makes when the
\* batch has no quote (sina2, tt2), and the history.  An answer that is not
\* asked for is fixed to the timeout, and the history to empty.
TIMEOUT == [kind |-> "timeout"]
SinaQuote == [kind |-> "quote", pre_close |-> 100, price |-> 101, date |-> now, time |-> tod]
TiantianQuote == [kind |-> "quote", gsz |-> PyStr(202), gszzl |-> PyStr(100), dwjz |-> PyStr(200), date |-> now, time |-> tod]
CycleAnswers(code) == {e \in [sina1 : {TIMEOUT, SinaQuote}, tt1 : {TIMEOUT, TiantianQuote}, sina2 : {TIMEOUT, SinaQuote}, tt2 : {TIMEOUT, TiantianQuote}, hist : HistoryOutcomes] :
                         /\ ~IsExchange(code) => e.sina1 = TIMEOUT /\ e.sina2 = TIMEOUT
                         /\ e.sina1 # TIMEOUT => e.tt1 = TIMEOUT
                         /\ e.sina2 # TIMEOUT => e.tt2 = TIMEOUT
                         /\ (e.sina1 # TIMEOUT \/ e.tt1 # TIMEOUT) => e.sina2 = TIMEOUT /\ e.tt2 = TIMEOUT
                         /\ (e.sina1 # TIMEOUT \/ e.tt1 # TIMEOUT \/ e.sina2 # TIMEOUT \/ e.tt2 # TIMEOUT) => e.hist.kind = "empty"}
\* one answer record per holding
RECURSIVE EnvsFrom(_)
EnvsFrom(i) == IF i > Len(Holdings) THEN {<<>>} ELSE {<<e>> \o rest : e \in CycleAnswers(Holdings[i]), rest \in EnvsFrom(i + 1)}
CycleEnvs == EnvsFrom(1)

\* ------------------------------------------------------------------ charts
\* A time text is the tuple of its fields: "HH:MM:SS" is <<minute, second>>
\* and "HH:MM" is <<minute>>, the minute counted from midnight.  The fields
\* are zero-padded, so the order of the texts is the order of the tuples,
\* a text being smaller than every text it is a proper prefix of.
RECURSIVE StrLess(_, _)
StrLess(a, b) == IF a = <<>> THEN b # <<>>
                 ELSE IF b = <<>> THEN FALSE
                 ELSE IF a[1] # b[1] THEN a[1] < b[1]
                 ELSE StrLess(Tail(a), Tail(b))

\* pd.to_datetime(record_time).dt.strftime('%H:%M:%S')
HMS(t) == <<t \div SecondsPerMinute, t % SecondsPerMinute>>
\* df['时间'].dt.strftime('%H:%M')
HM(m) == <<m>>

\* the dict _fetch_values returns for the frame df of get_fund_intraday_trend;
\* a point of df is [date, minute, pct].  The field date is the date of the
\* last point: the dict itself keeps no date.
NoTrend == [pct |-> <<>>, times |-> <<>>, is_history |-> FALSE, date |-> DASH]
fetch_values(df, today) == IF df = <<>> THEN NoTrend
                           ELSE [pct |-> [i \in 1..Len(df) |-> df[i].pct],
                                 times |-> [i \in 1..Len(df) |-> HM(df[i].minute)],
                                 is_history |-> (df[Len(df)].date < today),
                                 date |-> df[Len(df)].date]

\* get_batch_intraday_trends(fund_codes): one dict per code
get_batch_intraday_trends(codes, frames, today) == [c \in {codes[i] : i \in 1..Len(codes)} |-> fetch_values(frames[CHOOSE i \in 1..Len(codes) : codes[i] = c], today)]

\* [(t, p) for t, p in zip(api_times, api_pcts) if t < first_db_time]
RECURSIVE FilteredApi(_, _, _)
FilteredApi(api_times, api_pcts, first_db_time) ==
    IF api_times = <<>> \/ api_pcts = <<>> THEN <<>>
    ELSE (IF StrLess(Head(api_times), first_db_time) THEN <<[t |-> Head(api_times), p |-> Head(api_pcts)]>> ELSE <<>>)
         \o FilteredApi(Tail(api_times), Tail(api_pcts), first_db_time)

\* the times and pcts of one chart of _holdings_fragment, from the rows
\* db_df of get_today_ticks and the dict trend_data; pd.to_datetime raises
\* on a record_time whose time is the data-unavailable text
ChartSeries(db_df, trend_data) ==
    IF db_df # <<>> THEN
        IF \E i \in 1..Len(db_df) : db_df[i].record_time.time = UNAVAIL
        THEN [raised |-> "ValueError", times |-> <<>>, pcts |-> <<>>, is_history |-> FALSE]
        ELSE LET times == [i \in 1..Len(db_df) |-> HMS(db_df[i].record_time.time)]
                 pcts == [i \in 1..Len(db_df) |-> db_df[i].pct]
                 filtered_api == IF trend_data.pct # <<>> THEN FilteredApi(trend_data.times, trend_data.pct, times[1]) ELSE <<>>
             IN [raised |-> "none",
                 times |-> [i \in 1..Len(filtered_api) |-> filtered_api[i].t] \o times,
                 pcts |-> [i \in 1..Len(filtered_api) |-> filtered_api[i].p] \o pcts,
                 is_history |-> FALSE]
    ELSE IF trend_data.pct # <<>> THEN [raised |-> "none", times |-> trend_data.times, pcts |-> trend_data.pct, is_history |-> trend_data.is_history]
    ELSE [raised |-> "none", times |-> <<>>, pcts |-> <<>>, is_history |-> FALSE]

\* batch_trends.get(fund_code, {})
TrendOf(batch_trends, code) == IF code \in DOMAIN batch_trends THEN batch_trends[code] ELSE NoTrend

\* the charts of the holdings, in row order: for each holding the rows read,
\* the dict used and the series drawn
Charts(rows, batch_trends, today) == [i \in 1..Len(Holdings) |->
    [db_df |-> get_today_ticks(rows, Holdings[i], today),
     trend_data |-> TrendOf(batch_trends, Holdings[i]),
     chart |-> ChartSeries(get_today_ticks(rows, Holdings[i], today), TrendOf(batch_trends, Holdings[i]))]]

\* the frames the trend source can answer with: nothing, or the points of
\* one session, of today or of the day before, one point a minute
RemotePct == 7
RECURSIVE SessionFrames(_, _)
SessionFrames(d, m) == IF m > MaxMinute THEN {<<>>}
                       ELSE {<<[date |-> d, minute |-> m, pct |-> RemotePct]>> \o rest : rest \in SessionFrames(d, m + 1)} \cup SessionFrames(d, m + 1)
TrendFrames == SessionFrames(now - 1, 0) \cup SessionFrames(now, 0)

\* ------------------------------------------------------------------ inputs
\* the change a cycle computed for a second: the two cycles fetch on their
\* own and need not agree
PctOf(w) == IF w = "dashboard" THEN 0 ELSE 1
\* the ticks a cycle can hand to save_tick_batch today, and its lists
TickSpace(w) == {Tick(f, now, t, PctOf(w), PctOf(w) + 1) : f \in Funds, t \in Times}
Batches(w) == UNION {[1..n -> TickSpace(w)] : n \in 0..MaxBatch}

\* ------------------------------------------------------- the initial state
\* st.session_state before a fragment has run
NoSession == [w \in Writers |-> NONE]
\* no batch call is under way
NoPool == [phase |-> "idle"]
\* the st.cache_data caches are empty and no thread reads them
NoCache == [entry |-> "none", lock |-> 0, fetches |-> 0, pc |-> [c \in 1..MaxCallers |-> "idle"], how |-> [c \in 1..MaxCallers |-> "none"]]
\* ak_lock is free and no thread calls akshare
NoCalls == [holder |-> 0, pc |-> [t \in 1..MaxCallers |-> "idle"], left |-> [t \in 1..MaxCallers |-> MaxCalls]]

\* nothing is held yet and no trade has been entered
NoHolding == [share |-> 0, cost_price |-> [num |-> 0, den |-> 1], trades |-> 0]

\* ----------------------------------------------------------------- actions
Init == /\ now = 1
        /\ tod = 0
        /\ table = EmptyBag
        /\ save_error = FALSE
        /\ last_op = [op |-> "init_db"]
        /\ session = NoSession
        /\ pool = NoPool
        /\ cache = NoCache
        /\ ak = NoCalls
        /\ holding = NoHolding

SaveTickBatch(w, L) == /\ LET st == save_tick_batch(table, L) IN
                            /\ BagCardinality(st.rows) <= MaxRows
                            /\ table' = st.rows
                            /\ save_error' = (save_error \/ st.err)
                       /\ last_op' = [op |-> "save_tick_batch", by |-> w, n |-> Len(L), inserted |-> BagCardinality(save_tick_batch(table, L).rows) - BagCardinality(table)]
                       /\ UNCHANGED <<now, tod, session, threads, holding>>

GetTodayTicks(f) == /\ last_op' = [op |-> "get_today_ticks", fund_code |-> f, ret |-> get_today_ticks(table, f, now)]
                    /\ UNCHANGED <<now, tod, table, save_error, session, threads, holding>>

\* date('now') is the UTC date: the local date or the day before it
CleanupOldTicks(N) == /\ \E lag \in {0, 1} : table' = cleanup_old_ticks(table, N, now - lag)
                      /\ last_op' = [op |-> "cleanup_old_ticks", days_to_keep |-> N]
                      /\ UNCHANGED <<now, tod, save_error, session, threads, holding>>

AdvanceDay(last) == /\ now < last
                    /\ now' = now + 1
                    /\ tod' = 0
                    /\ last_op' = [op |-> "midnight"]
                    /\ UNCHANGED <<table, save_error, session, threads, holding>>

\* the tick store under two writers and a reader, within one day
Next == \/ \E w \in Writers : \E L \in Batches(w) : SaveTickBatch(w, L)
        \/ \E f \in Funds : GetTodayTicks(f)

Spec == Init /\ [][Next]_vars

\* the tick store read over several days: one-row batches of any second
OneTickBatches(w) == {<<r>> : r \in TickSpace(w)}

NextRead == \/ \E w \in Writers : \E L \in OneTickBatches(w) : SaveTickBatch(w, L)
            \/ \E f \in Funds : GetTodayTicks(f)
            \/ AdvanceDay(MaxDay)

SpecRead == Init /\ [][NextRead]_vars

\* the tick store over the days it takes a row to leave the retention
\* window: one-row batches of the first second of the day, and pruning
OneRowBatches == {<<Tick(f, now, 0, 0, 1)>> : f \in Funds}

NextRetention == \/ \E w \in Writers, L \in OneRowBatches : SaveTickBatch(w, L)
                 \/ \E N \in 1..MaxKeep : CleanupOldTicks(N)
                 \/ AdvanceDay(MaxOldDay)

SpecRetention == Init /\ [][NextRetention]_vars

\* ------------------------------------------------------- resolver actions
\* no resolver call is under way: the caller has taken the last result
Idle == last_op.op \notin {"_fetch_single_fund_realtime", "get_real_time_estimate"}

FetchSingle(code, sina, tt) == /\ Idle
                               /\ LET r == fetch_single_fund_realtime(code, sina, tt) IN
                                    last_op' = [op |-> "_fetch_single_fund_realtime", fund_code |-> code, sina |-> sina, tt |-> tt, ret |-> r.ret, raised |-> r.exc, calls |-> r.calls]
                               /\ UNCHANGED <<now, tod, table, save_error, session, threads, holding>>

GetRealTimeEstimate(code, pre, sina, tt, hist) == /\ Idle
                                                  /\ LET r == get_real_time_estimate(code, pre, sina, tt, hist, tod) IN
                                                       last_op' = [op |-> "get_real_time_estimate", fund_code |-> code, pre |-> pre, sina |-> sina, tt |-> tt, hist |-> hist, ret |-> r.ret, raised |-> r.exc, calls |-> r.calls]
                                                  /\ UNCHANGED <<now, tod, table, save_error, session, threads, holding>>

\* the caller takes the result
Return == /\ ~Idle
          /\ last_op' = [op |-> "return"]
          /\ UNCHANGED <<now, tod, table, save_error, session, threads, holding>>

\* a second passes
ClockTick == /\ tod < MaxTime
             /\ tod' = tod + 1
             /\ last_op' = [op |-> "tick"]
             /\ UNCHANGED <<now, table, save_error, session, threads, holding>>

\* with pre-fetched data the live sources are not asked: their answers are
\* then fixed to the timeout
NextResolver == \/ \E code \in Funds, sina \in SinaOutcomes, tt \in TiantianOutcomes : FetchSingle(code, sina, tt)
                \/ \E code \in Funds, sina \in SinaOutcomes, tt \in TiantianOutcomes, hist \in HistoryOutcomes : GetRealTimeEstimate(code, NONE, sina, tt, hist)
                \/ \E code \in Funds, hist \in HistoryOutcomes : \E pre \in PreFetched(code) \ {NONE} : GetRealTimeEstimate(code, pre, [kind |-> "timeout"], [kind |-> "timeout"], hist)
                \/ Return
                \/ ClockTick
                \/ AdvanceDay(MaxDay)

SpecResolver == Init /\ [][NextResolver]_vars

\* ------------------------------------------------------------ the application
\* what a fragment keeps in st.session_state: the figures it showed and, for
\* the holdings fragment, the trends.  The field fetched is the day of the
\* fetch: the session state itself keeps no time.
Kept(ests, batch_trends) == [gz |-> [i \in 1..Len(Holdings) |-> ests[i].ret.gz], trends |-> batch_trends, fetched |-> now]

\* the _fetch_single_fund_realtime calls of one cycle for each holding: the
\* task of the batch, and the call get_real_time_estimate makes when the
\* batch has no quote for it
Fetches(ests) == [i \in 1..Len(Holdings) |-> 1 + (IF \E k \in 1..Len(ests[i].calls) : ests[i].calls[k] \in {"sina", "tiantian"} THEN 1 ELSE 0)]

\* the dashboard fragment fetches no trends and draws no charts
NoTrends == <<>>
NoFrames == [i \in 1..Len(Holdings) |-> <<>>]

\* one run of show_dashboard_metrics or of _holdings_fragment that fetches:
\* batch fetch, trends, one estimate per holding, session state,
\* save_tick_batch, charts
RefreshCycle(w, env, frames, cap) ==
    /\ \E ests \in {CycleEstimates(Holdings, env, tod)} :
         \E st \in {save_tick_batch(table, TicksToSave(Holdings, ests, 1))} :
           \E batch_trends \in {IF w = "holdings" THEN get_batch_intraday_trends(Holdings, frames, now) ELSE NoTrends} :
              /\ BagCardinality(st.rows) <= cap
              /\ table' = st.rows
              /\ save_error' = (save_error \/ st.err)
              /\ session' = [session EXCEPT ![w] = Kept(ests, batch_trends)]
              /\ last_op' = [op |-> "refresh", by |-> w,
                             unavailable |-> {Holdings[i] : i \in {j \in 1..Len(Holdings) : ests[j].ret.time = UNAVAIL}},
                             fetches |-> Fetches(ests),
                             charts |-> IF w = "holdings" THEN Charts(st.rows, batch_trends, now) ELSE <<>>]
    /\ UNCHANGED <<now, tod, threads, holding>>

\* skip_api: auto-refresh is on and it is not trading time; the fragment
\* shows what the session state holds
SkipCycle(w) == /\ last_op' = [op |-> "refresh_skipped", by |-> w, shown |-> session[w],
                               charts |-> IF w = "holdings" /\ session[w] # NONE THEN Charts(table, session[w].trends, now) ELSE <<>>]
                /\ UNCHANGED <<now, tod, table, save_error, session, threads, holding>>

Refresh == \E w \in Writers, env \in CycleEnvs : RefreshCycle(w, env, NoFrames, MaxRows)

NextApp == \/ Refresh
           \/ \E w \in Writers : SkipCycle(w)
           \/ AdvanceDay(MaxDay)

SpecApp == Init /\ [][NextApp]_vars

\* the application on days on which Tiantian is down and no history is at
\* hand; the fragments are rerun every second (run_every=1) and the days go by
DownEnvs == {env \in CycleEnvs : \A i \in 1..Len(Holdings) : env[i].tt1 = TIMEOUT /\ env[i].sina2 = TIMEOUT /\ env[i].tt2 = TIMEOUT /\ env[i].hist.kind = "empty"}

\* every row these cycles can store: one a day and one without a date, for
\* each holding
AllDownRows == Len(Holdings) * (MaxOldDay + 1)

RefreshDown == \E w \in Writers, env \in DownEnvs : RefreshCycle(w, env, NoFrames, AllDownRows)

NextAppDown == \/ RefreshDown
               \/ \E w \in Writers : SkipCycle(w)
               \/ AdvanceDay(MaxOldDay)

FairSpecApp == Init /\ [][NextAppDown]_vars /\ WF_vars(RefreshDown) /\ WF_vars(AdvanceDay(MaxOldDay))

\* the cycle can always run
RefreshNeverBlocked == ENABLED <<RefreshDown>>_vars

\* the holdings fragment and its charts: the trend source answers for the
\* first holding, Tiantian is down
ChartFrames == {[i \in 1..Len(Holdings) |-> IF i = 1 THEN fr ELSE <<>>] : fr \in TrendFrames}

RefreshCharts == \E env \in DownEnvs, frames \in ChartFrames : RefreshCycle("holdings", env, frames, MaxRows)

NextChart == \/ RefreshCharts
             \/ SkipCycle("holdings")
             \/ ClockTick
             \/ AdvanceDay(MaxDay)

SpecChart == Init /\ [][NextChart]_vars

\* ------------------------------------------------------------ the worker pool
\* get_batch_realtime_estimates: ThreadPoolExecutor(max_workers=20), one task
\* per element of fund_codes, the results gathered as the tasks complete
max_workers == 20

\* what a task of _fetch_single_fund_realtime ends with: a quote, None, or
\* an exception (fund_code.startswith is outside every try)
TaskOutcomes == {"quote", "none", "raised"}
\* the quote of a code: the dict carries the code
QuoteOf(code) == [code |-> code]

\* executor.submit adds a worker thread while fewer than max_workers exist
AlwaysAddThread(num_threads) == TRUE
MayAddThread(num_threads) == num_threads < max_workers
\* the worker threads after k calls of submit (the most there can be: a
\* submit finding an idle worker adds none, and workers never go away
\* before the pool is shut down)
RECURSIVE ThreadsAfter(_)
ThreadsAfter(k) == IF k = 0 THEN 0 ELSE LET m == ThreadsAfter(k - 1) IN IF MayAddThread(m) THEN m + 1 ELSE m

\* the tasks of a call: one per element of the list, queued
RECURSIVE Submitted(_)
Submitted(L) == IF L = <<>> THEN EmptyBag ELSE SetToBag({[code |-> Head(L).code, out |-> Head(L).out, st |-> "queued"]}) (+) Submitted(Tail(L))
\* the number of tasks in a state
TasksIn(tasks, st) == BagCardinality(Where(tasks, {t \in BagToSet(tasks) : t.st = st}))
\* one task goes from t to t2
Moved(tasks, t, t2) == (tasks (-) SetToBag({t})) (+) SetToBag({t2})

\* try: data = future.result(); if data: results[code] = data
\* except Exception: pass
GatheredOrCleared(results, code, out) == IF out = "quote" THEN (code :> QuoteOf(code)) @@ results ELSE <<>>
Gathered(results, code, out) == IF out = "quote" THEN (code :> QuoteOf(code)) @@ results ELSE results

\* the lists a call is made with: short lists of any codes and outcomes, and
\* one long list (more tasks than workers) of one code
RECURSIVE ListsOf(_)
ListsOf(n) == IF n = 0 THEN {<<>>} ELSE LET shorter == ListsOf(n - 1) IN shorter \cup {<<[code |-> c, out |-> o]>> \o L : c \in Funds, o \in TaskOutcomes, L \in {M \in shorter : Len(M) = n - 1}}
LongLists == {[i \in 1..MaxTasks |-> [code |-> c, out |-> o]] : c \in Funds, o \in TaskOutcomes}
TaskLists == ListsOf(MaxCodes) \cup LongLists

BatchCall(L) == /\ pool.phase \in {"idle", "returned"}
                /\ pool' = [phase |-> IF L = <<>> THEN "returned" ELSE "waiting",
                            codes |-> {L[i].code : i \in 1..Len(L)},
                            tasks |-> Submitted(L),
                            workers |-> ThreadsAfter(Len(L)),
                            results |-> <<>>,
                            late |-> FALSE]
                /\ last_op' = [op |-> "get_batch_realtime_estimates"]
                /\ UNCHANGED <<store, session, cache, ak, holding>>

\* a worker thread without a task takes one from the queue
TaskStart == /\ pool.phase = "waiting"
             /\ TasksIn(pool.tasks, "running") < pool.workers
             /\ \E t \in BagToSet(pool.tasks) :
                  /\ t.st = "queued"
                  /\ pool' = [pool EXCEPT !.tasks = Moved(pool.tasks, t, [t EXCEPT !.st = "running"])]
             /\ last_op' = [op |-> "task_start"]
             /\ UNCHANGED <<store, session, cache, ak, holding>>

\* _fetch_single_fund_realtime returns or raises in its thread
TaskFinish == /\ pool.phase = "waiting"
              /\ \E t \in BagToSet(pool.tasks) :
                   /\ t.st = "running"
                   /\ pool' = [pool EXCEPT !.tasks = Moved(pool.tasks, t, [t EXCEPT !.st = "done"])]
              /\ last_op' = [op |-> "task_finish"]
              /\ UNCHANGED <<store, session, cache, ak, holding>>

\* as_completed yields a finished future; the loop body takes its result
Collect == /\ pool.phase = "waiting"
           /\ \E t \in BagToSet(pool.tasks) :
                /\ t.st = "done"
                /\ pool' = [pool EXCEPT !.tasks = Moved(pool.tasks, t, [t EXCEPT !.st = "collected"]),
                                        !.results = Gathered(pool.results, t.code, t.out)]
           /\ last_op' = [op |-> "as_completed"]
           /\ UNCHANGED <<store, session, cache, ak, holding>>

\* as_completed is exhausted when every future has been yielded; the with
\* block then shuts the pool down and the function returns results
BatchReturn == /\ pool.phase = "waiting"
               /\ \A t \in BagToSet(pool.tasks) : t.st = "collected"
               /\ pool' = [pool EXCEPT !.phase = "returned"]
               /\ last_op' = [op |-> "batch_return", ret |-> pool.results]
               /\ UNCHANGED <<store, session, cache, ak, holding>>

\* time passes while the caller waits: a deadline for the batch goes by
DeadlinePasses == /\ pool.phase = "waiting"
                  /\ ~pool.late
                  /\ pool' = [pool EXCEPT !.late = TRUE]
                  /\ last_op' = [op |-> "deadline"]
                  /\ UNCHANGED <<store, session, cache, ak, holding>>

NextBatch == \/ \E L \in TaskLists : BatchCall(L)
             \/ TaskStart
             \/ TaskFinish
             \/ Collect
             \/ BatchReturn
             \/ DeadlinePasses

SpecBatch == Init /\ [][NextBatch]_vars

\* ------------------------------------------------------------ the cache
\* @st.cache_data(ttl=3600) on _fetch_fund_history_raw, one key (one fund
\* code), called from the threads of a pool (prefetch_data,
\* get_portfolio_history).  The cache reads the entry; on a miss the caller
\* takes the lock of the key, reads again, and only on a second miss calls
\* the function and stores what it returns.
CacheCallers == 1..MaxCallers

\* the read a caller makes once it holds the lock of the key
ReadNothing(entry) == "none"
ReadAgain(entry) == entry

\* what _fetch_fund_history_raw returns: the frame, or an empty frame when
\* the request failed or had no rows (the exception is caught)
FetchedValues == {"frame", "empty"}
\* how the request to the upstream ends: rows, no rows, or an exception
UpstreamOutcomes == {"rows", "no rows", "raised"}
\* the try block returns df when it has rows; every other path falls
\* through to return pd.DataFrame()
Returned(outcome) == IF outcome = "rows" THEN "frame" ELSE "empty"

CacheRead(c) == /\ cache.pc[c] = "idle"
                /\ cache' = IF cache.entry # "none" THEN [cache EXCEPT !.pc[c] = "done", !.how[c] = "hit"]
                                                    ELSE [cache EXCEPT !.pc[c] = "missed"]
                /\ last_op' = [op |-> "cache_read", by |-> c]
                /\ UNCHANGED <<store, session, pool, ak, holding>>

TakeValueLock(c) == /\ cache.pc[c] = "missed"
                    /\ cache.lock = 0
                    /\ cache' = [cache EXCEPT !.pc[c] = "locked", !.lock = c]
                    /\ last_op' = [op |-> "cache_lock", by |-> c]
                    /\ UNCHANGED <<store, session, pool, ak, holding>>

ReadUnderLock(c) == /\ cache.pc[c] = "locked"
                    /\ cache' = IF ReadAgain(cache.entry) # "none" THEN [cache EXCEPT !.pc[c] = "done", !.how[c] = "waited", !.lock = 0]
                                                                   ELSE [cache EXCEPT !.pc[c] = "fetching", !.fetches = @ + 1]
                    /\ last_op' = [op |-> "cache_read_locked", by |-> c]
                    /\ UNCHANGED <<store, session, pool, ak, holding>>

\* the function returns; its value is stored and the lock released
FetchDone(c, outcome) == /\ cache.pc[c] = "fetching"
                         /\ cache' = [cache EXCEPT !.pc[c] = "done", !.how[c] = "fetched", !.entry = Returned(outcome), !.lock = 0]
                         /\ last_op' = [op |-> "_fetch_fund_history_raw", by |-> c, outcome |-> outcome, ret |-> Returned(outcome)]
                         /\ UNCHANGED <<store, session, pool, ak, holding>>

\* the caller has its value and may call again
CallerReturns(c) == /\ cache.pc[c] = "done"
                    /\ cache' = [cache EXCEPT !.pc[c] = "idle", !.how[c] = "none"]
                    /\ last_op' = [op |-> "cache_return", by |-> c]
                    /\ UNCHANGED <<store, session, pool, ak, holding>>

\* the entry reaches its ttl: the window of the key ends
Expire == /\ cache.entry # "none"
          /\ cache' = [cache EXCEPT !.entry = "none", !.fetches = 0]
          /\ last_op' = [op |-> "cache_expire"]
          /\ UNCHANGED <<store, session, pool, ak, holding>>

NextCache == \/ \E c \in CacheCallers : CacheRead(c)
             \/ \E c \in CacheCallers : TakeValueLock(c)
             \/ \E c \in CacheCallers : ReadUnderLock(c)
             \/ \E c \in CacheCallers, outcome \in UpstreamOutcomes : FetchDone(c, outcome)
             \/ \E c \in CacheCallers : CallerReturns(c)
             \/ Expire

SpecCache == Init /\ [][NextCache]_vars

\* ------------------------------------------------------------ the akshare lock
\* safe_ak_call: with ak_lock: return func(*args, **kwargs).  Every akshare
\* call of data_api is made through it.  A thread makes a bounded number of
\* calls.
AkThreads == 1..MaxCallers

\* the holder of ak_lock after the with block is left by thread t, the
\* wrapped call having returned or raised
LockKeptOnRaise(t, out) == IF out = "raised" THEN t ELSE 0
LockAfter(t, out) == 0

\* a thread enters safe_ak_call and asks for the lock
SafeAkCall(t) == /\ ak.pc[t] = "idle"
                 /\ ak.left[t] > 0
                 /\ ak' = [ak EXCEPT !.pc[t] = "waiting", !.left[t] = @ - 1]
                 /\ last_op' = [op |-> "safe_ak_call", by |-> t]
                 /\ UNCHANGED <<store, session, pool, cache, holding>>

\* the lock is free and the thread gets it: the akshare call begins
Acquire(t) == /\ ak.pc[t] = "waiting"
              /\ ak.holder = 0
              /\ ak' = [ak EXCEPT !.pc[t] = "calling", !.holder = t]
              /\ last_op' = [op |-> "acquire", by |-> t]
              /\ UNCHANGED <<store, session, pool, cache, holding>>

\* the akshare call returns or raises; the with block releases the lock
CallEnds(t, out) == /\ ak.pc[t] = "calling"
                    /\ ak' = [ak EXCEPT !.pc[t] = "idle", !.holder = LockAfter(t, out)]
                    /\ last_op' = [op |-> "ak_call_ends", by |-> t, out |-> out]
                    /\ UNCHANGED <<store, session, pool, cache, holding>>

AkOutcomes == {"returned", "raised"}

NextLock == \/ \E t \in AkThreads : SafeAkCall(t)
            \/ \E t \in AkThreads : Acquire(t)
            \/ \E t \in AkThreads, out \in AkOutcomes : CallEnds(t, out)

\* every wrapped call terminates, and a thread waiting for a lock that
\* stays free gets it
FairSpecLock == /\ Init /\ [][NextLock]_vars
                /\ \A t \in AkThreads : WF_vars(Acquire(t))
                /\ \A t \in AkThreads : WF_vars(\E out \in AkOutcomes : CallEnds(t, out))

\* ------------------------------------------------------------ fund metrics
\* A NAV is a whole number of tenths (12 is 1.2).  A quotient the code
\* computes is the exact fraction [num, den] with den > 0; fractions are
\* compared by cross-multiplication.  Rounding of floats is not modelled.
Frac(n, d) == [num |-> n, den |-> d]
FracLess(a, b) == a.num * b.den < b.num * a.den
FracEq(a, b) == a.num * b.den = b.num * a.den
Larger(a, b) == IF a < b THEN b ELSE a

\* the largest of s[lo..hi], found by halving the range
RECURSIVE RangeMax(_, _, _)
RangeMax(s, lo, hi) == IF lo = hi THEN s[lo]
                       ELSE Only({Larger(x, y) : x \in {RangeMax(s, lo, (lo + hi) \div 2)}, y \in {RangeMax(s, (lo + hi) \div 2 + 1, hi)}})
\* nav_series.cummax() at position i
WholeMax(s, i) == RangeMax(s, 1, Len(s))
RunMax(s, i) == RangeMax(s, 1, i)

\* (nav_series - roll_max) / roll_max
Drawdowns(s) == [i \in 1..Len(s) |-> Only({Frac(s[i] - roll_max, roll_max) : roll_max \in {RunMax(s, i)}})]
\* drawdown.min()
FracMin(fs) == CHOOSE x \in {fs[i] : i \in 1..Len(fs)} : \A i \in 1..Len(fs) : ~FracLess(fs[i], x)
\* abs(max_drawdown)
FracAbs(f) == Frac(IF f.num < 0 THEN -f.num ELSE f.num, f.den)

calculate_max_drawdown(nav_series) == FracAbs(FracMin(Drawdowns(nav_series)))

\* the series a metric is asked for: up to MaxLen NAVs between 0.9 and 1.2
NavValues == 9..12
NavSeries == UNION {[1..k -> NavValues] : k \in 1..MaxLen}

CalculateMaxDrawdown(navs) == /\ last_op' = [op |-> "calculate_max_drawdown", nav_series |-> navs, ret |-> calculate_max_drawdown(navs)]
                              /\ UNCHANGED <<store, session, threads, holding>>

NextDrawdown == \E navs \in NavSeries : CalculateMaxDrawdown(navs)

SpecDrawdown == Init /\ [][NextDrawdown]_vars

\* ------------------------------------------------------------ diagnosis
\* diagnose_fund over the one-year history get_fund_nav_history returns.
\* NAVs are whole hundredths here (130 is 1.30); a score is a whole number
\* of tenths (35 is 3.5), the Sharpe ratio a whole number of hundredths.
MinObservations == 100

\* f > n/d and f < n/d for a fraction f and d > 0
FracGt(f, n, d) == f.num * d > n * f.den
FracLt(f, n, d) == f.num * d < n * f.den

\* returns.std() == 0: all the day-to-day changes are the same
NoSpread(navs) == \A i \in 1..(Len(navs) - 1), j \in 1..(Len(navs) - 1) : navs[i + 1] * navs[j] = navs[j + 1] * navs[i]
\* calculate_sharpe_ratio: 0 for a series without spread, otherwise the
\* annualised ratio, whose value sh is left open here
calculate_sharpe_ratio(navs, sh) == IF NoSpread(navs) THEN 0 ELSE sh

\* if total_return > 0.2 ... elif > 0.1 ... elif < -0.1 ... elif < -0.2
ReturnDelta(tr) == IF FracGt(tr, 1, 5) THEN 10
                   ELSE IF FracGt(tr, 1, 10) THEN 5
                   ELSE IF FracLt(tr, -1, 10) THEN -5
                   ELSE IF FracLt(tr, -1, 5) THEN -10
                   ELSE 0
\* if max_dd < 0.1 ... elif > 0.25 ... elif > 0.35
DrawdownDelta(dd) == IF FracLt(dd, 1, 10) THEN 5
                     ELSE IF FracGt(dd, 1, 4) THEN -5
                     ELSE IF FracGt(dd, 7, 20) THEN -10
                     ELSE 0
\* if sharpe > 1.5
SharpeOdd(sh) == IF sh > 150 THEN 3 ELSE 0
SharpeDelta(sh) == IF sh > 150 THEN 5 ELSE 0
\* max(1.0, min(5.0, score))
Clamp(score) == IF score < 10 THEN 10 ELSE IF score > 50 THEN 50 ELSE score

\* '--' in place of a metric, and the text of a metric
NoMetric == [k |-> "str", v |-> DASH]
MetricText(x) == [k |-> "metric", v |-> x]
\* 'N/A', and the stars of a score: int(score) stars and a half
Stars(score) == [full |-> score \div 10, half |-> score % 10 >= 5]
NotRated == [full |-> 0, half |-> FALSE, text |-> "N/A"]

Insufficient == [score |-> PyFloat(0), stars |-> NotRated, metrics |-> [return_1y |-> NoMetric, max_drawdown |-> NoMetric, sharpe |-> NoMetric]]

Rated(score, total_return, max_dd, sharpe) == [score |-> PyFloat(score), stars |-> Stars(score),
                                               metrics |-> [return_1y |-> MetricText(total_return), max_drawdown |-> MetricText(max_dd), sharpe |-> MetricText(sharpe)]]

diagnose_fund(df, sh) == IF df = <<>> \/ Len(df) < MinObservations THEN Insufficient
                         ELSE LET total_return == Frac(df[Len(df)] - df[1], df[1])
                                  max_dd == calculate_max_drawdown(df)
                                  sharpe == calculate_sharpe_ratio(df, sh)
                              IN Rated(Clamp(30 + ReturnDelta(total_return) + DrawdownDelta(max_dd) + SharpeDelta(sharpe)), total_return, max_dd, sharpe)

\* the histories diagnosed: none, or a year of n days that stood at 1.00
\* and ended with up to MaxTail other NAVs
TailNavs == {60, 70, 85, 100, 115, 130}
Tails == UNION {[1..k -> TailNavs] : k \in 0..MaxTail}
YearOf(n, tail) == [i \in 1..n |-> IF i <= n - Len(tail) THEN 100 ELSE tail[i - (n - Len(tail))]]
Years == {<<>>} \cup {YearOf(n, tail) : n \in (MinObservations - 1)..(MinObservations + 1), tail \in Tails}
SharpeValues == {-100, 100, 200}

DiagnoseFund(df, sh) == /\ last_op.op # "diagnose_fund"
                        /\ \E ret \in {diagnose_fund(df, sh)} :
                             last_op' = [op |-> "diagnose_fund", n |-> Len(df), tail |-> IF df = <<>> THEN <<>> ELSE SubSeq(df, Len(df) - MaxTail + 1, Len(df)), sh |-> sh, ret |-> ret]
                        /\ UNCHANGED <<store, session, threads, holding>>

\* the page has shown the diagnosis
ShowDiagnosis == /\ last_op.op = "diagnose_fund"
                 /\ last_op' = [op |-> "shown"]
                 /\ UNCHANGED <<store, session, threads, holding>>

NextDiagnose == \/ \E df \in Years, sh \in SharpeValues : DiagnoseFund(df, sh)
                \/ ShowDiagnosis

SpecDiagnose == Init /\ [][NextDiagnose]_vars

\* ------------------------------------------------------------ trades
\* calculate_new_cost and the trade form that stores its result with
\* database.update_holding.  Shares and prices are whole numbers, a cost
\* price an exact fraction.
\* new_share = old_share - trade_amount; if new_share < 0: new_share = 0
SharesLeftUnfloored(old_share, trade_amount) == old_share - trade_amount
SharesLeft(old_share, trade_amount) == IF old_share - trade_amount < 0 THEN 0 ELSE old_share - trade_amount

\* total_value / total_share with total_value = old_share * old_cost +
\* trade_amount * trade_price
AverageOfPrices(old_share, old_cost, trade_amount, trade_price) == Frac(old_cost.num + trade_price * old_cost.den, 2 * old_cost.den)
WeightedCost(old_share, old_cost, trade_amount, trade_price) == Frac(old_share * old_cost.num + trade_amount * trade_price * old_cost.den, old_cost.den * (old_share + trade_amount))

calculate_new_cost(old_share, old_cost, trade_amount, trade_price, trade_type) ==
    IF trade_type = "sell" THEN [share |-> SharesLeft(old_share, trade_amount), cost |-> old_cost]
    ELSE IF old_share + trade_amount = 0 THEN [share |-> 0, cost |-> Frac(0, 1)]
    ELSE [share |-> old_share + trade_amount, cost |-> WeightedCost(old_share, old_cost, trade_amount, trade_price)]

\* the trade form is submitted: the new share and cost replace the old
Trade(trade_type, trade_amount, trade_price) ==
    /\ holding.trades < MaxTrades
    /\ \E r \in {calculate_new_cost(holding.share, holding.cost_price, trade_amount, trade_price, trade_type)} :
         /\ holding' = [share |-> r.share, cost_price |-> r.cost, trades |-> holding.trades + 1]
         /\ last_op' = [op |-> "calculate_new_cost", trade_type |-> trade_type, old_share |-> holding.share, old_cost |-> holding.cost_price,
                        trade_amount |-> trade_amount, trade_price |-> trade_price, ret |-> r]
    /\ UNCHANGED <<store, session, threads>>

NextTrade == \E trade_type \in {"buy", "sell"}, trade_amount \in 0..MaxUnits, trade_price \in 1..MaxPrice : Trade(trade_type, trade_amount, trade_price)

SpecTrade == Init /\ [][NextTrade]_vars

\* ------------------------------------------------------------ SIP simulation
\* calculate_sip_returns over the history get_fund_nav_history returns.  A
\* date is its day number in 2024 (1 is Monday 1 January); a row is
\* [date, nav] with the NAV a whole number.
DaysInMonth == <<31, 29, 31>>
DaysPerWeek == 7
RECURSIVE MonthFrom(_, _)
MonthFrom(n, m) == IF n <= DaysInMonth[m] THEN [month |-> m, day |-> n] ELSE MonthFrom(n - DaysInMonth[m], m + 1)
\* current_date.strftime("%Y-%m"), current_date.day
MonthOf(d) == MonthFrom(d, 1).month
DayOf(d) == MonthFrom(d, 1).day
\* current_date.weekday(): 0 is Monday
Weekday(d) == (d - 1) % DaysPerWeek
\* current_date.isocalendar(): the ISO week of ISO year 2024
IsoWeek(d) == (d - 1) \div DaysPerWeek + 1

\* frequency == '每周', frequency == '每月'
NotWeekly(frequency) == frequency # "weekly"
IsWeekly(frequency) == frequency = "weekly"
IsMonthly(frequency) == frequency = "monthly"

\* current_period: "2024-05" of the week or "2024-01" of the month, None
\* for any other frequency
CurrentPeriod(frequency, d) == IF IsWeekly(frequency) THEN [k |-> "week", v |-> IsoWeek(d)]
                               ELSE IF IsMonthly(frequency) THEN [k |-> "month", v |-> MonthOf(d)]
                               ELSE NONE
\* current_period != last_invested_period
AlwaysOpen(period, last) == TRUE
PeriodOpen(period, last) == period # last
\* target_weekday = exec_day_int - 1, kept within 0..4
TargetWeekday(exec_day_int) == IF exec_day_int - 1 < 0 THEN 0 ELSE IF exec_day_int - 1 > 4 THEN 4 ELSE exec_day_int - 1
should_invest(frequency, d, exec_day_int, last) ==
    IF IsWeekly(frequency) THEN PeriodOpen(CurrentPeriod(frequency, d), last) /\ Weekday(d) >= TargetWeekday(exec_day_int)
    ELSE IF IsMonthly(frequency) THEN PeriodOpen(CurrentPeriod(frequency, d), last) /\ DayOf(d) >= exec_day_int
    ELSE FALSE

\* for idx, row in df.iterrows(): the rows on which a purchase is made
RECURSIVE InvestLog(_, _, _, _, _)
InvestLog(rows, i, last, frequency, exec_day_int) ==
    IF i > Len(rows) THEN <<>>
    ELSE IF should_invest(frequency, rows[i].date, exec_day_int, last)
         THEN <<rows[i]>> \o InvestLog(rows, i + 1, CurrentPeriod(frequency, rows[i].date), frequency, exec_day_int)
         ELSE InvestLog(rows, i + 1, last, frequency, exec_day_int)

FracAdd(a, b) == Frac(a.num * b.den + b.num * a.den, a.den * b.den)
\* total_share: the sum of amount / current_nav over the purchases
RECURSIVE TotalShare(_, _)
TotalShare(log, amount) == IF log = <<>> THEN Frac(0, 1) ELSE FracAdd(Frac(amount, Head(log).nav), TotalShare(Tail(log), amount))

\* (final_value - total_invested) / total_invested if total_invested > 0 else 0
ValueRatio(final_value, total_invested) == IF total_invested > 0 THEN Frac(final_value.num, final_value.den * total_invested) ELSE Frac(0, 1)
YieldRate(final_value, total_invested) == IF total_invested > 0 THEN Frac(final_value.num - total_invested * final_value.den, final_value.den * total_invested) ELSE Frac(0, 1)

\* df[df['日期'] >= start_date]
RECURSIVE Since(_, _)
Since(df, start_date) == IF df = <<>> THEN <<>> ELSE (IF Head(df).date >= start_date THEN <<Head(df)>> ELSE <<>>) \o Since(Tail(df), start_date)

\* the 'neutral' figures of the returned dict; the trend lists, which only
\* the chart reads, are left out
SipResult(rows, log, amount, total_share) ==
    LET total_invested == amount * Len(log)
        final_value == Frac(total_share.num * rows[Len(rows)].nav, total_share.den)
    IN [k |-> "dict", total_invested |-> total_invested, final_value |-> final_value, yield_rate |-> YieldRate(final_value, total_invested), invest_log |-> log]

\* execution_day None, or a numeral that int() reads
ExecDayInt(execution_day) == IF execution_day = NONE THEN 1 ELSE execution_day.v

calculate_sip_returns(df, amount, frequency, execution_day, start_date) ==
    IF df = <<>> THEN NONE
    ELSE LET rows == Since(df, start_date)
             log == InvestLog(rows, 1, NONE, frequency, ExecDayInt(execution_day))
         IN IF log = <<>> THEN NONE ELSE SipResult(rows, log, amount, TotalShare(log, amount))

\* the histories simulated: up to MaxDates of these trading days, in
\* ascending order, each with a NAV of 1 or 2.  The days: Monday 1,
\* Wednesday 3, Friday 5 and Monday 8 January, Wednesday 31 January,
\* Thursday 1 and Friday 2 February.
TradingDays == {1, 3, 5, 8, 31, 32, 33}
NavChoices == {1, 2}
RECURSIVE Ascending(_)
Ascending(S) == IF S = {} THEN <<>> ELSE LET d == CHOOSE x \in S : \A y \in S : x <= y IN <<d>> \o Ascending(S \ {d})
SipHistories == {[i \in 1..Len(days) |-> [date |-> days[i], nav |-> navs[i]]] :
                   <<days, navs>> \in UNION {{<<Ascending(S), f>> : f \in [1..Cardinality(S) -> NavChoices]} : S \in {T \in SUBSET TradingDays : Cardinality(T) <= MaxDates}}}
\* the plans the form can send: a weekday 1..5 for a weekly plan, a day
\* 1..28 for a monthly one; no day, and another frequency, for other callers
SipPlans == ({"weekly"} \X {NONE, PyStr(1), PyStr(3), PyStr(5)}) \cup ({"monthly"} \X {NONE, PyStr(1), PyStr(3), PyStr(28)}) \cup ({"daily"} \X {NONE, PyStr(1)})
\* the amount field has no lower limit: 0 can be entered
Amounts == {0, 100, 1000}
\* the first day of the look-back window: before all days, inside them,
\* after them
StartDates == {1, 4, 61}

CalculateSipReturns(df, amount, plan, start_date) ==
    /\ last_op.op # "calculate_sip_returns"
    /\ \E ret \in {calculate_sip_returns(df, amount, plan[1], plan[2], start_date)} :
         last_op' = [op |-> "calculate_sip_returns", df |-> df, amount |-> amount, frequency |-> plan[1], execution_day |-> plan[2], start_date |-> start_date, ret |-> ret]
    /\ UNCHANGED <<store, session, threads, holding>>

\* the page has shown the result, or the message that there is none
ShowPlan == /\ last_op.op = "calculate_sip_returns"
            /\ last_op' = [op |-> "plan_shown"]
            /\ UNCHANGED <<store, session, threads, holding>>

\* a new simulation is started once the last one has been shown
NextSip == \/ /\ last_op.op # "calculate_sip_returns"
              /\ \E df \in SipHistories, amount \in Amounts, plan \in SipPlans, start_date \in StartDates : CalculateSipReturns(df, amount, plan, start_date)
           \/ ShowPlan

SpecSip == Init /\ [][NextSip]_vars

TypeOK == /\ now \in 1..MaxOldDay
          /\ IsABag(table)
          /\ save_error \in BOOLEAN

\* ------------------------------------------------------------------ claims
SameKey(r, s) == r.fund_code = s.fund_code /\ r.record_time = s.record_time

\* C1: save_tick_batch is idempotent: for every tick list L and every table
\* the store can hold, a second save_tick_batch(L) leaves the table as the
\* first call left it, and get_today_ticks returns as many rows for every
\* fund after the second call as after the first.
C1_SaveIdempotent == \A w \in Writers : \A L \in Batches(w) :
                       LET t1 == save_tick_batch(table, L).rows
                           t2 == save_tick_batch(t1, L).rows
                       IN /\ t2 = t1
                          /\ \A f \in Funds : Len(get_today_ticks(t2, f, now)) = Len(get_today_ticks(t1, f, now))

\* a non-empty batch was saved and none of its rows was new: a repeated call
C1_Witness == /\ last_op.op = "save_tick_batch"
              /\ last_op.n = MaxBatch
              /\ last_op.inserted = 0
              /\ table # EmptyBag

\* C2: whatever the order in which the two refresh cycles' save_tick_batch
\* calls reach the store, no call raises, the table never holds two rows
\* of one (fund_code, record_time), and a stored row is never replaced by a
\* later append: while its key is stored, its pct and price are the ones
\* first inserted.
C2_OneRowPerKey == /\ save_error = FALSE
                   /\ \A r \in BagToSet(table) : table[r] = 1 /\ \A s \in BagToSet(table) : SameKey(r, s) => r = s

C2_NoOverwrite == \A r \in BagToSet(table) : (\E s \in BagToSet(table') : SameKey(r, s)) => r \in BagToSet(table')

TodayRows(f) == {r \in BagToSet(table) : r.fund_code = f /\ r.record_time.date = now}

C4_ReadToday == last_op.op = "get_today_ticks" =>
                  LET df == last_op.ret
                      f == last_op.fund_code
                  IN /\ \A i \in 1..Len(df) : \E r \in TodayRows(f) : RowView(r) = df[i]
                     /\ \A r \in TodayRows(f) : \E i \in 1..Len(df) : RowView(r) = df[i]
                     /\ Len(df) = Cardinality(TodayRows(f))
                     /\ \A i \in 1..Len(df), j \in 1..Len(df) : i < j => TimeLess(df[i].record_time, df[j].record_time)

\* a read that returned two rows while the table also holds a row of the
\* same fund of another day
C4_Witness == /\ last_op.op = "get_today_ticks"
              /\ Len(last_op.ret) >= 2
              /\ \E r \in BagToSet(table) : r.fund_code = last_op.fund_code /\ r.record_time.date # now

\* C5: cleanup_old_ticks(days_to_keep=N) deletes exactly the rows whose
\* record_time is more than N days before now, for every N >= 1, and never
\* a row of the current day.
C5_CleanupExact == [][last_op'.op = "cleanup_old_ticks" =>
                        \A r \in BagToSet(table) :
                           /\ (r \in BagToSet(table')) <=> ~(r.record_time.date < now - last_op'.days_to_keep)
                           /\ r.record_time.date = now => r \in BagToSet(table')]_vars

\* C3: a refresh cycle stores a tick only for a holding whose live quote was
\* fetched in that cycle: for a holding whose estimate is the
\* data-unavailable record, the cycle adds no row to intraday_ticks.
RowsOf(rows, f) == {r \in BagToSet(rows) : r.fund_code = f}

C3_NoTickWithoutQuote == [][last_op'.op = "refresh" => \A f \in last_op'.unavailable : RowsOf(table', f) = RowsOf(table, f)]_vars

\* C6: while refresh cycles keep running, pruning happens: a stored tick
\* older than the retention window is eventually removed.
OldTickStored == \E r \in BagToSet(table) : r.record_time.date # DASH /\ r.record_time.date < now - RetentionDays

C6_OldTicksPruned == OldTickStored ~> ~OldTickStored

\* C7: for an exchange-traded code _fetch_single_fund_realtime asks Sina first
\* and Tiantian only after Sina failed; for an off-exchange code it never
\* asks Sina; a quote it returns is the one of the source asked last and
\* carries that source's identifier.
IsFetchSingle == last_op.op = "_fetch_single_fund_realtime"
IsEstimate == last_op.op = "get_real_time_estimate"
SinaGaveQuote(op) == IsExchange(op.fund_code) /\ op.sina.kind = "quote"

C7_FirstSuccessWithSource == IsFetchSingle =>
                               /\ IsExchange(last_op.fund_code) => last_op.calls[1] = "sina" /\ (Len(last_op.calls) > 1 => ~SinaGaveQuote(last_op) /\ last_op.calls = <<"sina", "tiantian">>)
                               /\ ~IsExchange(last_op.fund_code) => last_op.calls = <<"tiantian">>
                               /\ SinaGaveQuote(last_op) => last_op.calls = <<"sina">>
                               /\ last_op.ret # NONE => "source_id" \in DOMAIN last_op.ret /\ last_op.ret.source_id = last_op.calls[Len(last_op.calls)]

\* C8, as claimed: for an off-exchange fund the resolver asks Tiantian, then
\* the bulk estimation source, then the historical NAV, and stops at the
\* first success.
TiantianGaveQuote(op) == op.tt.kind = "quote"

C8_BulkSecond == (IsEstimate /\ ~IsExchange(last_op.fund_code) /\ last_op.pre = NONE) =>
                   IF TiantianGaveQuote(last_op) THEN last_op.calls = <<"tiantian">>
                   ELSE Len(last_op.calls) >= 2 /\ last_op.calls[1] = "tiantian" /\ last_op.calls[2] = "bulk"

\* C8, amended: for an off-exchange fund the resolver asks Tiantian first
\* and the historical NAV after it, the history exactly when no quote with
\* a positive unit NAV (dwjz) is at hand; the bulk estimation source and
\* Sina are never asked.
PositiveNav(x) == x.k \in {"float", "numstr"} /\ x.v > 0

C8_TiantianThenHistory == (IsEstimate /\ ~IsExchange(last_op.fund_code)) =>
                            LET asked == IF last_op.pre = NONE THEN <<"tiantian">> ELSE <<>>
                                quote == IF last_op.pre # NONE THEN last_op.pre ELSE last_op.ret
                                known == IF last_op.pre # NONE THEN PositiveNav(last_op.pre.confirmed_nav)
                                         ELSE TiantianGaveQuote(last_op) /\ PositiveNav(last_op.tt.dwjz)
                            IN /\ \A i \in 1..Len(last_op.calls) : last_op.calls[i] \notin {"bulk", "sina"}
                               /\ last_op.calls = IF known THEN asked ELSE asked \o <<"history">>

\* Tiantian failed for an off-exchange fund and the price is the one of the
\* history
C8_Witness == /\ IsEstimate
              /\ last_op.fund_code = OffExchangeCode
              /\ last_op.pre = NONE
              /\ last_op.tt.kind = "status"
              /\ last_op.calls = <<"tiantian", "history">>
              /\ last_op.ret.gz = 150

\* C9: whatever the sources answer (timeout, status other than 200, body
\* that does not parse, missing or non-numeric fields, empty history),
\* _fetch_single_fund_realtime and get_real_time_estimate return and raise
\* nothing; get_real_time_estimate returns a record.
C9_NeverRaises == /\ IsFetchSingle => last_op.raised = "none"
                  /\ IsEstimate => last_op.raised = "none" /\ last_op.ret # NONE

\* Sina answers with a field that is no number, Tiantian with a null
\* estimate, the history is empty: the data-unavailable record is returned
C9_Witness == /\ IsEstimate
              /\ last_op.fund_code = ExchangeCode
              /\ last_op.pre = NONE
              /\ last_op.sina.kind = "nonnumeric"
              /\ last_op.tt.kind = "quote"
              /\ last_op.tt.gsz = NONE
              /\ last_op.hist.kind = "empty"
              /\ last_op.ret.time = UNAVAIL

\* C10: a record of get_real_time_estimate whose price is the last known
\* historical NAV carries a staleness flag that is set, and a record without
\* a set flag holds a live price.
FlagSet(ret) == \/ "is_stale" \in DOMAIN ret /\ ret.is_stale
                \/ "is_error" \in DOMAIN ret /\ ret.is_error
PriceFromHistory(op) == /\ op.calls # <<>>
                        /\ op.calls[Len(op.calls)] = "history"
                        /\ op.hist.kind = "nav"
                        /\ op.ret.gz = op.hist.nav

C10_StaleFlagged == (IsEstimate /\ last_op.raised = "none") =>
                      /\ PriceFromHistory(last_op) => FlagSet(last_op.ret)
                      /\ ~FlagSet(last_op.ret) => last_op.ret.time # UNAVAIL

\* the charts a fragment has just drawn
ChartsDrawn == IF last_op.op \in {"refresh", "refresh_skipped"} THEN {last_op.charts[i] : i \in DOMAIN last_op.charts} ELSE {}
\* the moment of a time text, in seconds from midnight
Instant(text) == text[1] * SecondsPerMinute + (IF Len(text) > 1 THEN text[2] ELSE 0)
\* the points (time, pct) of two lists of equal length
Points(times, pcts) == [i \in 1..Len(times) |-> [t |-> times[i], p |-> pcts[i]]]
\* the points of a series that lie before a moment, in their order
RECURSIVE PointsBefore(_, _)
PointsBefore(series, moment) == IF series = <<>> THEN <<>>
                                ELSE (IF Instant(Head(series).t) < moment THEN <<Head(series)>> ELSE <<>>) \o PointsBefore(Tail(series), moment)

\* C11: the series drawn for a fund with local ticks today is the remote
\* points whose time strictly precedes the first local tick's time, in
\* their order, followed by all local ticks in order; it is strictly
\* ascending in time, no two points at one time.
C11_MergedSeries == \A c \in ChartsDrawn : c.db_df # <<>> =>
                      LET local == [i \in 1..Len(c.db_df) |-> [t |-> HMS(c.db_df[i].record_time.time), p |-> c.db_df[i].pct]]
                          remote == Points(c.trend_data.times, c.trend_data.pct)
                          drawn == Points(c.chart.times, c.chart.pcts)
                      IN /\ c.chart.raised = "none"
                         /\ drawn = PointsBefore(remote, Instant(local[1].t)) \o local
                         /\ \A i \in 1..Len(drawn), j \in 1..Len(drawn) : i < j => Instant(drawn[i].t) < Instant(drawn[j].t)

\* C12: for a fund without local ticks today the series drawn is the remote
\* series, tagged is_history exactly when the remote points are not of the
\* current day; with local ticks the series is never tagged is_history.
C12_RemoteFallback == \A c \in ChartsDrawn :
                        /\ c.db_df = <<>> => /\ c.chart.times = c.trend_data.times
                                             /\ c.chart.pcts = c.trend_data.pct
                                             /\ c.chart.is_history <=> (c.trend_data.pct # <<>> /\ c.trend_data.date # now)
                        /\ c.db_df # <<>> => ~c.chart.is_history

\* C14: in one refresh cycle exactly one call of _fetch_single_fund_realtime
\* is made for each holding, also when its fetch in the batch failed.
C14_OneFetchPerInstrument == last_op.op = "refresh" => \A i \in DOMAIN last_op.fetches : last_op.fetches[i] = 1

\* C19: no valuation is shown past its time-to-live (60 seconds for
\* valuations): what a paused cycle shows from session state was not
\* fetched on an earlier day.
C19_NoStaleShown == (last_op.op = "refresh_skipped" /\ last_op.shown # NONE) => last_op.shown.fetched = now

\* C13: the map get_batch_realtime_estimates returns has an entry for every
\* requested code, a quote or an Unavailable marker, and no other key.
C13_EntryForEveryCode == pool.phase = "returned" => DOMAIN pool.results = pool.codes

\* C15: during a call of get_batch_realtime_estimates at most max_workers
\* (20) tasks execute at the same time, however many codes were requested.
C15_AtMostTwentyRunning == pool.phase = "waiting" => TasksIn(pool.tasks, "running") <= max_workers

\* more tasks than workers: twenty run and one waits in the queue
C15_Witness == /\ pool.phase = "waiting"
               /\ TasksIn(pool.tasks, "running") = max_workers
               /\ TasksIn(pool.tasks, "queued") > 0

\* C16: once the deadline of the batch has passed the call can return, also
\* when a task has not completed.
C16_ReturnsAtDeadline == (pool.phase = "waiting" /\ pool.late) => ENABLED BatchReturn

\* C17: a task that raises or returns None removes only its own code: every
\* requested code one of whose tasks returned a quote is in the returned map
\* with that quote, and the map has no other entry.
C17_FailureIsolated == pool.phase = "returned" =>
                         /\ \A t \in BagToSet(pool.tasks) : t.out = "quote" => (t.code \in DOMAIN pool.results /\ pool.results[t.code] = QuoteOf(t.code))
                         /\ \A c \in DOMAIN pool.results : \E t \in BagToSet(pool.tasks) : t.code = c /\ t.out = "quote"

\* one task raised, another of another code returned a quote, and the call
\* has returned
C17_Witness == /\ pool.phase = "returned"
               /\ \E t \in BagToSet(pool.tasks), u \in BagToSet(pool.tasks) : t.out = "raised" /\ u.out = "quote" /\ u.code # t.code /\ u.code \in DOMAIN pool.results

\* C18: concurrent callers of one cache key within one ttl window trigger
\* exactly one upstream fetch: at most one fetch is begun per window, and
\* the value the callers find in the window came from that fetch.
C18_SingleFlight == /\ cache.fetches <= 1
                    /\ cache.entry # "none" => cache.fetches = 1

\* several callers missed at the same time; one fetched, another waited for
\* the lock and found the value
C18_Witness == \E a \in CacheCallers, b \in CacheCallers : cache.how[a] = "fetched" /\ cache.how[b] = "waited" /\ cache.fetches = 1

PeakUpTo(navs, t) == CHOOSE m \in {navs[k] : k \in 1..t} : \A k \in 1..t : navs[k] <= m
\* the fall at t from the peak so far, as a fraction of the peak
FallAt(navs, t) == Frac(PeakUpTo(navs, t) - navs[t], PeakUpTo(navs, t))

\* C23: calculate_max_drawdown returns the maximum over t of
\* (running_max(nav[0..t]) - nav[t]) / running_max(nav[0..t]) as a
\* non-negative magnitude: 0 for a non-decreasing series, 0.25 for
\* [1.0, 1.2, 0.9, 1.1].
C23_MaxDrawdown == last_op.op = "calculate_max_drawdown" =>
                     LET navs == last_op.nav_series
                         ret == last_op.ret
                     IN /\ ret.num >= 0 /\ ret.den > 0
                        /\ \E t \in 1..Len(navs) : FracEq(ret, FallAt(navs, t))
                        /\ \A t \in 1..Len(navs) : ~FracLess(ret, FallAt(navs, t))
                        /\ (\A t \in 1..(Len(navs) - 1) : navs[t] <= navs[t + 1]) => ret.num = 0
                        /\ navs = <<10, 12, 9, 11>> => FracEq(ret, Frac(1, 4))

\* the series 1.0, 1.2, 0.9, 1.1 has been measured: a quarter
C23_Witness == /\ last_op.op = "calculate_max_drawdown"
               /\ last_op.nav_series = <<10, 12, 9, 11>>
               /\ FracEq(last_op.ret, Frac(1, 4))

\* the three metrics of a diagnosis
MetricsOf(ret) == {ret.metrics.return_1y, ret.metrics.max_drawdown, ret.metrics.sharpe}

\* C21: with an empty history or fewer than 100 observations diagnose_fund
\* returns the insufficient-data result (stars 'N/A', metrics '--') and no
\* numeric score; with 100 or more it returns a scored result.
C21_InsufficientData == last_op.op = "diagnose_fund" =>
                          /\ last_op.n < MinObservations => /\ last_op.ret.stars = NotRated
                                                            /\ MetricsOf(last_op.ret) = {NoMetric}
                                                            /\ last_op.ret.score.k # "float"
                          /\ last_op.n >= MinObservations => /\ last_op.ret.stars # NotRated
                                                             /\ NoMetric \notin MetricsOf(last_op.ret)
                                                             /\ last_op.ret.score.k = "float"
                                                             /\ last_op.ret.score.v \in 10..50

\* C22: for a history of at least 100 observations the score is 3.0 plus one
\* fixed increment of each of the return, drawdown and Sharpe rules, kept
\* within [1.0, 5.0], and so a multiple of 0.5 in that interval.
C22_ScoreOnScale == (last_op.op = "diagnose_fund" /\ last_op.n >= MinObservations) =>
                      /\ \E k \in 2..10 : last_op.ret.score.v = 5 * k
                      /\ \E a \in {-10, -5, 0, 5, 10}, b \in {-10, -5, 0, 5}, c \in {0, 5} :
                           LET sum == 30 + a + b + c
                           IN last_op.ret.score.v = IF sum < 10 THEN 10 ELSE IF sum > 50 THEN 50 ELSE sum

\* a year that rose by 30% without a fall and with a Sharpe ratio of 2.0 is
\* rated 5.0
C22_Witness == /\ last_op.op = "diagnose_fund"
               /\ last_op.n >= MinObservations
               /\ last_op.sh > 150
               /\ last_op.ret.score.v = 50

\* the adjustment each listed rule of the table makes
ReturnRule(tr) == IF FracGt(tr, 1, 5) THEN 10
                  ELSE IF FracGt(tr, 1, 10) THEN 5
                  ELSE IF FracLt(tr, -1, 5) THEN -10
                  ELSE IF FracLt(tr, -1, 10) THEN -5
                  ELSE 0
DrawdownRule(dd) == IF FracLt(dd, 1, 10) THEN 5
                    ELSE IF FracGt(dd, 7, 20) THEN -10
                    ELSE IF FracGt(dd, 1, 4) THEN -5
                    ELSE 0
SharpeRule(sh) == IF sh > 150 THEN 5 ELSE 0

\* C29: diagnose_fund applies each listed adjustment: return > 0.2 adds 1.0,
\* (0.1, 0.2] adds 0.5, [-0.2, -0.1) subtracts 0.5, < -0.2 subtracts 1.0;
\* drawdown < 0.1 adds 0.5, (0.25, 0.35] subtracts 0.5, > 0.35 subtracts
\* 1.0; Sharpe > 1.5 adds 0.5.
C29_RuleTable == (last_op.op = "diagnose_fund" /\ last_op.n >= MinObservations) =>
                   LET m == last_op.ret.metrics
                       sum == 30 + ReturnRule(m.return_1y.v) + DrawdownRule(m.max_drawdown.v) + SharpeRule(m.sharpe.v)
                   IN last_op.ret.score.v = IF sum < 10 THEN 10 ELSE IF sum > 50 THEN 50 ELSE sum

\* the last call of calculate_new_cost was for the given side
Traded(side) == last_op.op = "calculate_new_cost" /\ last_op.trade_type = side

\* C27: a buy returns new_units = old_units + trade_units and the weighted
\* average cost, so that new_units * new_cost = old_units * old_cost +
\* trade_units * trade_price; it returns (0, 0) when old_units + trade_units
\* is 0.  One unit at 2 bought onto one unit at cost 1 gives cost 1.5.
C27_BuyWeightedAverage == Traded("buy") =>
                            LET old == last_op.old_share
                                oc == last_op.old_cost
                                t == last_op.trade_amount
                                ret == last_op.ret
                            IN /\ ret.share = old + t
                               /\ old + t = 0 => ret.cost.num = 0
                               /\ old + t > 0 => /\ ret.cost.den > 0
                                                 /\ ret.share * ret.cost.num * oc.den = (old * oc.num + t * last_op.trade_price * oc.den) * ret.cost.den
                               /\ (old = 1 /\ FracEq(oc, Frac(1, 1)) /\ t = 1 /\ last_op.trade_price = 2) => FracEq(ret.cost, Frac(3, 2))

\* one unit at 2 has been bought onto one unit held at cost 1
C27_Witness == /\ Traded("buy")
               /\ last_op.old_share = 1 /\ FracEq(last_op.old_cost, Frac(1, 1))
               /\ last_op.trade_amount = 1 /\ last_op.trade_price = 2
               /\ holding.share = 2 /\ FracEq(holding.cost_price, Frac(3, 2))

\* C28: a sell returns new_units = max(0, old_units - trade_units) and the
\* old cost basis, also when all units or more than held are sold; the
\* units held are never negative.
C28_SellKeepsCost == /\ holding.share >= 0
                     /\ Traded("sell") =>
                          /\ last_op.ret.share = (IF last_op.old_share > last_op.trade_amount THEN last_op.old_share - last_op.trade_amount ELSE 0)
                          /\ last_op.ret.cost = last_op.old_cost
                          /\ holding.cost_price = last_op.old_cost

\* more units than held were sold: none are left, the cost stays
C28_Witness == /\ Traded("sell")
               /\ last_op.trade_amount > last_op.old_share
               /\ last_op.old_share > 0
               /\ holding.share = 0
               /\ holding.cost_price.num > 0

\* ---------------------------------------------------------------- SIP claims
SipCall == last_op.op = "calculate_sip_returns"
\* the trading days of the history inside the look-back window
WindowDays == {last_op.df[i].date : i \in {j \in DOMAIN last_op.df : last_op.df[j].date >= last_op.start_date}}
ConfiguredDay == IF last_op.execution_day = NONE THEN 1 ELSE last_op.execution_day.v
\* d is on or after the configured execution day of its week or month
OnOrAfter(d) == IF last_op.frequency = "weekly" THEN Weekday(d) + 1 >= ConfiguredDay ELSE DayOf(d) >= ConfiguredDay
SamePeriod(d, e) == IF last_op.frequency = "weekly" THEN IsoWeek(d) = IsoWeek(e) ELSE MonthOf(d) = MonthOf(e)
\* the first trading day of its period on or after the execution day
FirstSuchDay(d) == OnOrAfter(d) /\ \A e \in WindowDays : (SamePeriod(d, e) /\ e < d) => ~OnOrAfter(e)
Purchases == IF last_op.ret = NONE THEN <<>> ELSE last_op.ret.invest_log
Bought == {Purchases[i].date : i \in DOMAIN Purchases}

\* C24: for a weekly or monthly plan, every ISO week or calendar month of
\* the history gets at most one purchase; it gets exactly one when it has a
\* trading day on or after the configured execution day, on the first such
\* day, and none when it has no such day.
C24_OnePurchasePerPeriod ==
    (SipCall /\ last_op.frequency \in {"weekly", "monthly"}) =>
        /\ Len(Purchases) = Cardinality(Bought)
        /\ \A d \in Bought, e \in Bought : SamePeriod(d, e) => d = e
        /\ \A d \in WindowDays : d \in Bought <=> FirstSuchDay(d)
        /\ Bought \subseteq WindowDays
        /\ \A d \in WindowDays : (\E e \in WindowDays : SamePeriod(d, e) /\ OnOrAfter(e)) <=> (\E e \in Bought : SamePeriod(d, e))

\* a weekly plan for Wednesdays over Monday 1, Wednesday 3 and Friday 5
\* January buys once, on the Wednesday
C24_Witness == /\ SipCall
               /\ last_op.frequency = "weekly"
               /\ ConfiguredDay = 3
               /\ WindowDays = {1, 3, 5}
               /\ Bought = {3}

RECURSIVE UnitsOf(_)
UnitsOf(log) == IF log = <<>> THEN Frac(0, 1) ELSE FracAdd(Frac(last_op.amount, log[Len(log)].nav), UnitsOf(SubSeq(log, 1, Len(log) - 1)))
LastNav == last_op.df[Len(last_op.df)].nav
ConstantNav == \A i \in DOMAIN last_op.df : last_op.df[i].nav = LastNav

\* C25: a simulation with k >= 1 purchases reports total_invested =
\* k * amount, final_value = (the sum of amount / nav over the purchases)
\* * the last NAV of the series, and yield_rate = (final_value -
\* total_invested) / total_invested; with a constant NAV the yield is 0.
C25_SipTotals ==
    (SipCall /\ Len(Purchases) >= 1) =>
        /\ last_op.ret.total_invested = Len(Purchases) * last_op.amount
        /\ FracEq(last_op.ret.final_value, Frac(UnitsOf(Purchases).num * LastNav, UnitsOf(Purchases).den))
        /\ FracEq(Frac(last_op.ret.yield_rate.num * last_op.ret.total_invested, last_op.ret.yield_rate.den),
                  Frac(last_op.ret.final_value.num - last_op.ret.total_invested * last_op.ret.final_value.den, last_op.ret.final_value.den))
        /\ ConstantNav => last_op.ret.yield_rate.num = 0

\* 1000 a month on day 1, the NAV 2 throughout, January and February:
\* 2000 invested, worth 2000, yield 0
C25_Witness == /\ SipCall
               /\ last_op.frequency = "monthly"
               /\ ConfiguredDay = 1
               /\ last_op.amount = 1000
               /\ Len(Purchases) = 2
               /\ ConstantNav /\ LastNav = 2
               /\ last_op.ret.total_invested = 2000
               /\ FracEq(last_op.ret.final_value, Frac(2000, 1))
               /\ last_op.ret.yield_rate.num = 0

\* no purchase can be made: the history is empty, none of its days is in
\* the window, no day is on or after the execution day, or the frequency
\* is neither weekly nor monthly
NoPurchasePossible == \/ last_op.df = <<>>
                      \/ WindowDays = {}
                      \/ last_op.frequency \notin {"weekly", "monthly"}
                      \/ \A d \in WindowDays : ~OnOrAfter(d)

\* C26: when no purchase was executed the result is None, and a result that
\* is returned rests on at least one purchase.
C26_NoPurchaseNoResult ==
    SipCall => /\ NoPurchasePossible => last_op.ret = NONE
               /\ last_op.ret # NONE => (~NoPurchasePossible /\ Len(last_op.ret.invest_log) >= 1)

\* a monthly plan for the 28th over 1, 3 and 5 January: days in the window,
\* none of them on or after the 28th
C26_Witness == /\ SipCall
               /\ last_op.frequency = "monthly"
               /\ ConfiguredDay = 28
               /\ WindowDays = {1, 3, 5}
               /\ last_op.ret = NONE

\* ---------------------------------------------------------------- cache claims
\* C30: a fetch that failed leaves no entry in the cache, so the next call
\* for the key within the ttl window goes to the upstream again.
C30_FailureNotStored == (last_op.op = "_fetch_fund_history_raw" /\ last_op.outcome = "raised") => cache.entry = "none"

====
